---- MODULE Spec2Model ----
(***************************************************************************)
(* A model of the PI data extractor's fetch worker                         *)
(* (src/core/data_worker.py, class DataFetchWorker), of the main window    *)
(* that starts it and receives its signals (src/gui/main_window.py, class  *)
(* EnhancedPIDataExtractorGUI) and of the exporter's column filter         *)
(* (src/core/exporters.py, DataExporter.get_clean_dataframe).              *)
(*                                                                         *)
(* Time is counted in minutes on the grid 0..MaxTime, which stands for the *)
(* fetch range [start_time, end_time].  A series is what the historian     *)
(* returns for one tag: a sequence of <<timestamp, value>> samples with    *)
(* distinct timestamps (the tests mock it with a dict).  A table cell is a *)
(* rational <<numerator, denominator>>; the denominator 0 marks a null     *)
(* (None / NaN).  The float arithmetic of the weighted average is modelled *)
(* exactly, over the rationals: IEEE rounding is not part of the model.    *)
(***************************************************************************)
EXTENDS Integers, Sequences, FiniteSets, TLC

\* ---------------------------------------------------------------- bounds
\* The fetch range holds the timestamps 0..MaxTime (minutes).
MaxTime == 2
\* The window spinners range over 0..MaxWin (past) and -MaxWin..MaxWin (future).
MaxWin == 2

\* timedelta(minutes=...) against .dt.total_seconds()
SecondsPerMinute == 60

Times == 0 .. MaxTime
Values == {1, 2, 3}
ProcTags == {"P1", "P2"}
LabTags == {"L1", "L2"}
AllTags == ProcTags \cup LabTags

\* ---------------------------------------------------------------- cells
Null == <<0, 0>>
Cell(v) == <<v, 1>>
IsNull(c) == c[2] = 0

\* ---------------------------------------------------------------- series
RECURSIVE SortedTimes(_)
SortedTimes(S) ==
    IF S = {} THEN <<>>
    ELSE LET m == CHOOSE x \in S : \A y \in S : x <= y
         IN  <<m>> \o SortedTimes(S \ {m})

\* The series a historian holding the samples f (a function from a set of
\* timestamps to values) returns: ascending in time.
SeriesOf(f) ==
    LET ts == SortedTimes(DOMAIN f)
    IN  [k \in 1 .. Len(ts) |-> <<ts[k], f[ts[k]]>>]

\* Every series over the grid with values in V.
SeriesOver(V) == { SeriesOf(f) : f \in UNION { [S -> V] : S \in SUBSET Times } }

\* The series with the value v at every time of the grid.
Constant(v) == SeriesOf([t \in Times |-> v])

SeriesTimes(raw) == { raw[k][1] : k \in 1 .. Len(raw) }

Range(s) == { s[k] : k \in 1 .. Len(s) }

\* ---------------------------------------------------------------- frames
\* pd.DataFrame(raw.items(), columns=["Timestamp", tag])
DataFrame(raw, tag) ==
    [ columns |-> <<"Timestamp", tag>>,
      rows    |-> [k \in 1 .. Len(raw) |->
                     ("Timestamp" :> raw[k][1]) @@ (tag :> Cell(raw[k][2]))] ]

FrameTimes(df) == { df.rows[k]["Timestamp"] : k \in 1 .. Len(df.rows) }

DataColumns(df) == SelectSeq(df.columns, LAMBDA c : c # "Timestamp")

\* The row of df at timestamp t without its Timestamp key; all nulls when df
\* has no row at t (the fill of an outer join).
RowAt(df, t) ==
    LET cols == { df.columns[k] : k \in 1 .. Len(df.columns) } \ {"Timestamp"}
    IN  IF t \in FrameTimes(df)
        THEN LET r == CHOOSE k \in 1 .. Len(df.rows) : df.rows[k]["Timestamp"] = t
             IN  [c \in cols |-> df.rows[r][c]]
        ELSE [c \in cols |-> Null]

\* how="inner" in place of how="outer".
JoinKeysInner(l, r) == FrameTimes(l) \cap FrameTimes(r)

\* The timestamps an outer join keeps.
JoinKeys(l, r) == FrameTimes(l) \cup FrameTimes(r)

\* pd.merge(l, r, on="Timestamp", how="outer"): one row per key of either
\* side (keys sorted), the other side's columns null where it has no row.
Merge(l, r) ==
    LET ts == SortedTimes(JoinKeys(l, r))
    IN  [ columns |-> l.columns \o DataColumns(r),
          rows    |-> [k \in 1 .. Len(ts) |->
                         ("Timestamp" :> ts[k]) @@ RowAt(l, ts[k]) @@ RowAt(r, ts[k])] ]

\* reduce(lambda l, r: pd.merge(l, r, ...), frames), frames non-empty; also
\* the loop of fetch_lab_samples over all_samples[1:].
RECURSIVE MergeAll(_)
MergeAll(frames) ==
    IF Len(frames) = 1 THEN frames[1]
    ELSE Merge(MergeAll(SubSeq(frames, 1, Len(frames) - 1)), frames[Len(frames)])

HasNull(row) == \E c \in DOMAIN row : c # "Timestamp" /\ IsNull(row[c])

\* dropna() forgotten: the rows with nulls stay.
KeepNulls(df) == df

\* df.dropna()
dropna(df) == [df EXCEPT !.rows = SelectSeq(df.rows, LAMBDA row : ~HasNull(row))]

\* sort_values forgotten: the rows stay as the merge left them.
Unsorted(df) == df

\* df.sort_values("Timestamp")
sort_values(df) ==
    [df EXCEPT !.rows = SortSeq(df.rows, LAMBDA a, b : a["Timestamp"] < b["Timestamp"])]


\* ---------------------------------------------------------------- rationals
Abs(x) == IF x < 0 THEN -x ELSE x

RECURSIVE GCD(_, _)
GCD(a, b) == IF b = 0 THEN a ELSE GCD(b, a % b)

\* The rational n/d in lowest terms with a positive denominator (d # 0).
Rat(n, d) ==
    LET g == GCD(Abs(n), Abs(d))
        s == IF d < 0 THEN -1 ELSE 1
    IN  <<s * (n \div g), s * (d \div g)>>

RatAdd(a, b) ==
    LET g == GCD(a[2], b[2])
    IN  Rat(a[1] * (b[2] \div g) + b[1] * (a[2] \div g), (a[2] \div g) * b[2])

RatMul(a, b) ==
    LET x == Rat(a[1], b[2])
        y == Rat(b[1], a[2])
    IN  Rat(x[1] * y[1], x[2] * y[2])

\* a / b; a zero divisor gives no number (NaN).
RatDiv(a, b) == IF b[1] = 0 THEN Null ELSE RatMul(a, Rat(b[2], b[1]))

RatLeq(a, b) == a[1] * b[2] <= b[1] * a[2]
RatLess(a, b) == a[1] * b[2] < b[1] * a[2]

RECURSIVE RatSum(_)
RatSum(s) == IF s = <<>> THEN Cell(0) ELSE RatAdd(s[1], RatSum(Tail(s)))

\* ---------------------------------------------------------------- aggregator
\* point.recorded_values(start, end): the samples of the tag between the two
\* bounds, inclusive; the historian walks from start to end, so a range given
\* backwards (start after end) comes back in descending time order.
Reverse(s) == [k \in 1 .. Len(s) |-> s[Len(s) + 1 - k]]

recorded_values(series, start, end) ==
    IF start <= end
    THEN SelectSeq(series, LAMBDA smp : start <= smp[1] /\ smp[1] <= end)
    ELSE Reverse(SelectSeq(series, LAMBDA smp : end <= smp[1] /\ smp[1] <= start))

\* point.interpolated_values(start, end, interval): the tag's values on its
\* grid over the range.
interpolated_values(series, start, end) ==
    SelectSeq(series, LAMBDA smp : start <= smp[1] /\ smp[1] <= end)

\* Weight with the .abs() forgotten: samples before the anchor weigh negative.
WeightSigned(t, sample_time) == Rat(1, (t - sample_time) * SecondsPerMinute + 1)

\* df["Weight"] = 1.0 / ((df["Timestamp"] - sample_time).abs().dt.total_seconds() + 1)
Weight(t, sample_time) == Rat(1, Abs(t - sample_time) * SecondsPerMinute + 1)

\* A nearest-pick in place of the average: the value of a sample closest to
\* the anchor.
WeightedNearest(raw, sample_time) ==
    LET k == CHOOSE n \in 1 .. Len(raw) :
               \A m \in 1 .. Len(raw) :
                 Abs(raw[n][1] - sample_time) <= Abs(raw[m][1] - sample_time)
    IN  Cell(raw[k][2])

\* (df["Value"] * df["Weight"]).sum() / df["Weight"].sum(), raw non-empty
Weighted(raw, sample_time) ==
    LET w  == [k \in 1 .. Len(raw) |-> Weight(raw[k][1], sample_time)]
        vw == [k \in 1 .. Len(raw) |-> RatMul(Cell(raw[k][2]), w[k])]
    IN  RatDiv(RatSum(vw), RatSum(w))

\* What fetch_weighted_process stores for a tag whose read returned raw.
Aggregate(raw, sample_time) ==
    IF raw = <<>> THEN Null ELSE Weighted(raw, sample_time)

\* ---------------------------------------------------------------- state
VARIABLES
    pi,             \* the historian: tag -> the series it holds over the range
    mode,           \* self.mode
    tags,           \* self.tags
    lab_tags,       \* self.lab_tags
    past_window,    \* self.past_window (minutes)
    future_window,  \* self.future_window (minutes)
    descriptions,   \* self.descriptions
    units,          \* self.units
    pc,             \* where the worker is
    i,              \* position of the running loop over tags / lab_tags (1-based)
    all_samples,    \* fetch_lab_samples: all_samples
    lab_df,         \* fetch_inferential_data: lab_df
    ev,             \* fetch_inferential_data: position in lab_df (1-based)
    sample_time,    \* fetch_weighted_process: sample_time
    result,         \* fetch_weighted_process: result
    rows,           \* fetch_inferential_data: rows
    data_frames,    \* fetch_interpolated_process_data: data_frames
    calls,          \* the calls made to the historian and how each ended, in order
    progress,       \* the values emitted on progress_updated, in order
    errors,         \* the events emitted on error_occurred, in order
    emitted,        \* the results emitted on data_ready, in order
    window,         \* the main window: the fields of PIDataExtractorGUI
    qt,             \* the event loop: signals delivered, modal boxes open
    session,        \* what the session has done so far: fetches and their results
    exporter        \* a DataExporter: its dataframe and what it returned

vars == <<pi, mode, tags, lab_tags, past_window, future_window, descriptions,
          units, pc, i, all_samples, lab_df, ev, sample_time, result, rows,
          data_frames, calls, progress, errors, emitted, window, qt, session,
          exporter>>

\* What lies outside the worker: no step of the worker thread touches it.
consumer == <<window, qt, session, exporter>>

config == <<pi, mode, tags, lab_tags, past_window, future_window>>

EmptyDict == [t \in {} |-> Null]
EmptyFrame == [columns |-> <<>>, rows |-> <<>>]
NoTime == 0 - 1

Error(kind, tag, time) == [kind |-> kind, tag |-> tag, time |-> time]

\* One call to the historian: op is the function that made it, raw what the
\* read returned (nothing when the call raised).
Call(op, tag, time, start, end, outcome, raw) ==
    [op |-> op, tag |-> tag, time |-> time, start |-> start, end |-> end,
     outcome |-> outcome, raw |-> raw]

\* self.start_time and self.end_time: the whole grid.
start_time == 0
end_time == MaxTime

\* __init__ (the run has not started) and the locals not yet bound.
InitWorker ==
    /\ descriptions = EmptyDict
    /\ units = EmptyDict
    /\ i = 1
    /\ all_samples = <<>>
    /\ lab_df = EmptyFrame
    /\ ev = 1
    /\ sample_time = NoTime
    /\ result = EmptyDict
    /\ rows = <<>>
    /\ data_frames = <<>>
    /\ calls = <<>>
    /\ progress = <<>>
    /\ errors = <<>>
    /\ emitted = <<>>

\* ---------------------------------------------------------------- run
\* run(): progress 0, connect, dispatch on the mode.
run ==
    /\ pc = "start"
    /\ progress' = Append(progress, 0)
    /\ \E connected \in BOOLEAN :
         IF ~connected
         THEN /\ errors' = Append(errors, Error("connection", "", NoTime))
              /\ pc' = "done"
         ELSE IF mode = "process"
         THEN /\ pc' = "grid_loop"
              /\ UNCHANGED errors
         ELSE IF mode = "inferential"
         THEN /\ pc' = "lab_loop"
              /\ UNCHANGED errors
         ELSE /\ errors' = Append(errors, Error("unknown_mode", "", NoTime))
              /\ pc' = "done"
    /\ i' = 1
    /\ UNCHANGED <<config, consumer, descriptions, units, all_samples, lab_df, ev,
                   sample_time, result, rows, data_frames, calls, emitted>>

\* The except clause swallowing the exception: no error_occurred.
run_except_silent ==
    /\ pc = "lab_raised"
    /\ pc' = "done"
    /\ UNCHANGED <<config, consumer, descriptions, units, i, all_samples, lab_df, ev,
                   sample_time, result, rows, data_frames, calls, progress,
                   errors, emitted>>

\* run(): except Exception around the whole fetch; the one exception that
\* reaches it from the fetch functions is the ValueError of fetch_lab_samples.
run_except ==
    /\ pc = "lab_raised"
    /\ errors' = Append(errors, Error("connection", "", NoTime))
    /\ pc' = "done"
    /\ UNCHANGED <<config, consumer, descriptions, units, i, all_samples, lab_df, ev,
                   sample_time, result, rows, data_frames, calls, progress,
                   emitted>>

\* ---------------------------------------------------------------- lab samples
\* fetch_lab_samples: one pass of the loop over self.lab_tags.
fetch_lab_samples_tag ==
    /\ pc = "lab_loop"
    /\ i <= Len(lab_tags)
    /\ LET tag == lab_tags[i]
           raw == recorded_values(pi[tag], start_time, end_time)
       IN  \E outcome \in {"ok", "raises"} :
             /\ calls' = Append(calls, Call("lab", tag, NoTime, start_time, end_time, outcome,
                                            IF outcome = "ok" THEN raw ELSE <<>>))
             /\ IF outcome = "ok"
                THEN /\ all_samples' = Append(all_samples, DataFrame(raw, tag))
                     /\ UNCHANGED errors
                ELSE /\ errors' = Append(errors, Error("lab", tag, NoTime))
                     /\ UNCHANGED all_samples
    /\ i' = i + 1
    /\ UNCHANGED <<config, consumer, descriptions, units, pc, lab_df, ev, sample_time,
                   result, rows, data_frames, progress, emitted>>

\* Raising also when a fetched series is empty.
NoLabDataOrEmpty(samples) ==
    samples = <<>> \/ \E k \in 1 .. Len(samples) : samples[k].rows = <<>>

\* Raising also when the fetch of one lab tag failed.
NoLabDataIfAnyFailed(samples) == samples = <<>> \/ Len(samples) < Len(lab_tags)

\* Whether fetch_lab_samples raises ValueError("No lab data found.").
NoLabData(samples) == samples = <<>>

\* The loop over all_samples[1:] forgotten: the first series alone.
LabSamplesFirstOnly(samples) == sort_values(dropna(samples[1]))

\* The frame fetch_lab_samples returns for all_samples = samples (non-empty).
LabSamples(samples) == sort_values(dropna(MergeAll(samples)))

\* fetch_lab_samples after its loop: raise, or merge and return.
fetch_lab_samples_merge ==
    /\ pc = "lab_loop"
    /\ i > Len(lab_tags)
    /\ IF NoLabData(all_samples)
       THEN /\ pc' = "lab_raised"
            /\ UNCHANGED lab_df
       ELSE /\ lab_df' = LabSamples(all_samples)
            /\ pc' = "ev_loop"
    /\ UNCHANGED <<config, consumer, descriptions, units, i, all_samples, ev, sample_time,
                   result, rows, data_frames, calls, progress, errors, emitted>>

\* ---------------------------------------------------------------- aggregator loop
\* start and end of fetch_weighted_process
WindowStart == sample_time - past_window
WindowEnd == sample_time + future_window

\* The empty check forgotten: the arithmetic on an empty frame raises too.
CaughtEmpty(outcome, raw) == outcome # "ok" \/ raw = <<>>

\* Whether a pass of fetch_weighted_process's loop ends in its except clause:
\* when the lookup or the read raised.  An empty read is handled before any
\* arithmetic touches it (if df.empty: ... continue).
Caught(outcome, raw) == outcome # "ok"

\* result[tag] = None forgotten in the except clause.
OnFailureNoValue(res, tag) == res

\* except Exception: result[tag] = None
OnFailure(res, tag) == (tag :> Null) @@ res

\* fetch_weighted_process: one pass of the loop over self.tags.  The lookup
\* (server.search(tag)[0]) or the read (point.recorded_values) may raise.
fetch_weighted_process_tag ==
    /\ pc = "fwp_loop"
    /\ i <= Len(tags)
    /\ LET tag == tags[i]
           raw == recorded_values(pi[tag], WindowStart, WindowEnd)
       IN  \E outcome \in {"ok", "search_raises", "read_raises"} :
             /\ calls' = Append(calls, Call("weighted", tag, sample_time, WindowStart,
                                            WindowEnd, outcome,
                                            IF outcome = "ok" THEN raw ELSE <<>>))
             /\ IF Caught(outcome, raw)
                THEN /\ errors' = Append(errors, Error("weighted", tag, sample_time))
                     /\ result' = OnFailure(result, tag)
                ELSE /\ result' = (tag :> Aggregate(raw, sample_time)) @@ result
                     /\ UNCHANGED errors
    /\ i' = i + 1
    /\ UNCHANGED <<config, consumer, descriptions, units, pc, all_samples, lab_df, ev,
                   sample_time, rows, data_frames, progress, emitted>>

\* fetch_weighted_process: return result
fetch_weighted_process_return ==
    /\ pc = "fwp_loop"
    /\ i > Len(tags)
    /\ pc' = "fwp_ret"
    /\ UNCHANGED <<config, consumer, descriptions, units, i, all_samples, lab_df, ev,
                   sample_time, result, rows, data_frames, calls, progress,
                   errors, emitted>>

\* ---------------------------------------------------------------- inferential
\* The share of the passes still to come instead of the share done.
PercentCountdown(done, total, scale) == ((total - done) * scale) \div total

\* int((i / total) * scale)
Percent(done, total, scale) == (done * scale) \div total

\* The assignment of the Status column forgotten.
AddStatusNever(df) == df

\* df["Status"] = 'G'
AddStatus(df) ==
    [ columns |-> IF \E k \in 1 .. Len(df.columns) : df.columns[k] = "Status"
                  THEN df.columns ELSE Append(df.columns, "Status"),
      rows    |-> [k \in 1 .. Len(df.rows) |-> ("Status" :> "G") @@ df.rows[k]] ]

\* fetch_inferential_data: the head of the loop over lab_df, up to the call
\* of fetch_weighted_process.
fetch_inferential_data_event ==
    /\ pc = "ev_loop"
    /\ ev <= Len(lab_df.rows)
    /\ sample_time' = lab_df.rows[ev]["Timestamp"]
    /\ result' = EmptyDict
    /\ i' = 1
    /\ pc' = "fwp_loop"
    /\ UNCHANGED <<config, consumer, descriptions, units, all_samples, lab_df, ev, rows,
                   data_frames, calls, progress, errors, emitted>>

\* The null aggregates left out of the row.
MergedRowSkipNulls(time, lab_vals, proc_vals) ==
    [t \in { x \in DOMAIN proc_vals : ~IsNull(proc_vals[x]) } |-> proc_vals[t]]
      @@ lab_vals @@ ("Timestamp" :> time)

\* merged = {"Timestamp": sample_time}; merged.update(lab_vals);
\* merged.update(proc_vals)
MergedRow(time, lab_vals, proc_vals) ==
    proc_vals @@ lab_vals @@ ("Timestamp" :> time)

\* fetch_inferential_data: the rest of the loop body, after the call returned.
fetch_inferential_data_row ==
    /\ pc = "fwp_ret"
    /\ LET row      == lab_df.rows[ev]
           lab_vals == [c \in (DOMAIN row) \ {"Timestamp"} |-> row[c]]
       IN  rows' = Append(rows, MergedRow(sample_time, lab_vals, result))
    /\ progress' = Append(progress, Percent(ev - 1, Len(lab_df.rows), 95))
    /\ ev' = ev + 1
    /\ pc' = "ev_loop"
    /\ UNCHANGED <<config, consumer, descriptions, units, i, all_samples, lab_df,
                   sample_time, result, data_frames, calls, errors, emitted>>

\* The rows with a null aggregate dropped from the table.
RowsFrameDropNulls(rs) ==
    [ columns |-> IF rs = <<>> THEN <<>>
                  ELSE <<"Timestamp">> \o DataColumns(lab_df) \o tags,
      rows    |-> SelectSeq(rs, LAMBDA row : ~HasNull(row)) ]

\* pd.DataFrame(rows) for the rows of fetch_inferential_data: the columns are
\* the keys of the row dicts in insertion order; no rows, no columns.
RowsFrame(rs) ==
    [ columns |-> IF rs = <<>> THEN <<>>
                  ELSE <<"Timestamp">> \o DataColumns(lab_df) \o tags,
      rows    |-> rs ]

\* fetch_inferential_data after its loop.
fetch_inferential_data_final ==
    /\ pc = "ev_loop"
    /\ ev > Len(lab_df.rows)
    /\ progress' = Append(progress, 100)
    /\ emitted' = Append(emitted, [ dataframe    |-> AddStatus(RowsFrame(rows)),
                                    descriptions |-> EmptyDict,
                                    units        |-> EmptyDict ])
    /\ pc' = "done"
    /\ UNCHANGED <<config, consumer, descriptions, units, i, all_samples, lab_df, ev,
                   sample_time, result, rows, data_frames, calls, errors>>

\* ---------------------------------------------------------------- process grid
\* fetch_interpolated_process_data: one pass of the loop over self.tags.  The
\* lookup or the read may raise ("raises"); reading the unit may raise after
\* the description was stored ("units_raises").
fetch_interpolated_process_data_tag ==
    /\ pc = "grid_loop"
    /\ i <= Len(tags)
    /\ progress' = Append(progress, Percent(i - 1, Len(tags), 90))
    /\ LET tag == tags[i]
           raw == interpolated_values(pi[tag], start_time, end_time)
       IN  \E outcome \in {"ok", "raises", "units_raises"} :
             /\ calls' = Append(calls, Call("grid", tag, NoTime, start_time, end_time, outcome,
                                            IF outcome = "raises" THEN <<>> ELSE raw))
             /\ descriptions' = IF outcome = "raises" THEN descriptions
                                ELSE (tag :> <<"description", tag>>) @@ descriptions
             /\ units' = IF outcome = "ok"
                         THEN (tag :> <<"units", tag>>) @@ units
                         ELSE units
             /\ IF outcome = "ok"
                THEN /\ data_frames' = Append(data_frames, DataFrame(raw, tag))
                     /\ UNCHANGED errors
                ELSE /\ errors' = Append(errors, Error("grid", tag, NoTime))
                     /\ UNCHANGED data_frames
    /\ i' = i + 1
    /\ UNCHANGED <<config, consumer, pc, all_samples, lab_df, ev, sample_time, result,
                   rows, emitted>>

\* The table fetch_interpolated_process_data emits for data_frames = frames.
GridTable(frames) == AddStatus(sort_values(MergeAll(frames)))

\* Any failed tag failing the whole fetch.
NothingFetchedOrPartial(frames) == frames = <<>> \/ Len(frames) < Len(tags)

\* The else branch of "if data_frames:": no tag was fetched.
NothingFetched(frames) == frames = <<>>

\* fetch_interpolated_process_data after its loop.
fetch_interpolated_process_data_merge ==
    /\ pc = "grid_loop"
    /\ i > Len(tags)
    /\ IF ~NothingFetched(data_frames)
       THEN /\ progress' = progress \o <<95, 100>>
            /\ emitted' = Append(emitted, [ dataframe    |-> GridTable(data_frames),
                                            descriptions |-> descriptions,
                                            units        |-> units ])
            /\ UNCHANGED errors
       ELSE /\ errors' = Append(errors, Error("no_process_data", "", NoTime))
            /\ UNCHANGED <<progress, emitted>>
    /\ pc' = "done"
    /\ UNCHANGED <<config, consumer, descriptions, units, i, all_samples, lab_df, ev,
                   sample_time, result, rows, data_frames, calls>>

\* ---------------------------------------------------------------- main window
\* The fetches one session may start.
MaxFetches == 2

\* The ResultTable the window holds: self.data_frame, self.descriptions,
\* self.units.
Stored(w) ==
    [dataframe |-> w.data_frame, descriptions |-> w.descriptions, units |-> w.units]

\* __init__ of the window, and pi_available as test_pi_availability left it.
InitWindow(available) ==
    [ data_frame        |-> EmptyFrame,
      descriptions      |-> EmptyDict,
      units             |-> EmptyDict,
      pi_available      |-> available,
      connection_status |-> FALSE,
      fetch_btn         |-> TRUE,       \* fetch_btn.isEnabled()
      progress_dialog   |-> "none",     \* "none", "open" (modal) or "closed"
      worker            |-> FALSE ]     \* self.worker is a DataFetchWorker

\* The event loop of the GUI thread: how many of the worker's queued signals
\* have been delivered to their slots, and how many modal message boxes are
\* open (each runs a nested event loop until the user closes it).
\* shown_as is the mode on_data_ready took the last result to be of.
InitQt ==
    [ errors_seen   |-> 0,
      ready_seen    |-> 0,
      finished_seen |-> FALSE,
      boxes         |-> 0,
      shown_as      |-> "none" ]

InitSession ==
    [ started  |-> 0,                   \* workers started
      finished |-> 0,                   \* runs of on_fetch_finished
      before   |-> Stored(InitWindow(FALSE)),  \* Stored(window) when the last worker started
      runs     |-> <<>> ]               \* the fetches that finished

\* A path no export has written to, and an export function not yet called.
NoFile == [exists |-> FALSE, lines |-> <<>>]
NotCalled == [called |-> FALSE, raised |-> FALSE, file |-> NoFile]

\* DataExporter.__init__, and what the model keeps of the calls made on the
\* exporter: what get_clean_dataframe returned, and for export_csv and
\* export_txt whether the call raised and the file it left at its path.
DataExporter(dataframe, descs, us, timezone, instrument_mapping) ==
    [ dataframe          |-> dataframe,
      descriptions       |-> descs,
      units              |-> us,
      timezone           |-> timezone,
      instrument_mapping |-> instrument_mapping,
      clean_df           |-> EmptyFrame,
      called             |-> FALSE,
      csv                |-> NotCalled,
      txt                |-> NotCalled ]

NoExporter == DataExporter(EmptyFrame, EmptyDict, EmptyDict, "Local", EmptyDict)

\* The worker of the worker-only specifications runs without a consumer.
NoConsumer ==
    /\ window = InitWindow(FALSE)
    /\ qt = InitQt
    /\ session = InitSession
    /\ exporter = NoExporter

\* The user can reach the widgets of the window: no modal dialog is open.
Interactive == qt.boxes = 0 /\ window.progress_dialog # "open"

\* What the user has set up in the tag browser and the controls when they
\* press Fetch: the mode, the process tags, the lab tags.
Ui(m, ts, ls) == [mode |-> m, tags |-> ts, lab_tags |-> ls]
UiConfigs ==
    { Ui("process", <<"P1">>, <<>>),
      Ui("process", <<"P1", "P2">>, <<>>),
      Ui("process", <<>>, <<>>),
      Ui("inferential", <<"P1">>, <<"L1">>),
      Ui("inferential", <<"P1">>, <<>>),
      Ui("inferential", <<>>, <<"L1">>) }

\* The validation of fetch_pi_data fails: no lab tags or no process tags in
\* inferential mode, no tag selected in process mode.
Invalid(ui) ==
    IF ui.mode = "inferential"
    THEN ui.lab_tags = <<>> \/ ui.tags = <<>>
    ELSE ui.tags = <<>>

\* A list kept from the worker before instead of a new one.
StaleList(old) == old

\* data_frames = [], rows = [], all_samples = []: every fetch starts its
\* lists empty.
FreshList(old) == <<>>

\* The fetch button left enabled while the worker runs.
StartedButtonEnabled(w) ==
    [w EXCEPT !.progress_dialog = "open", !.worker = TRUE]

\* fetch_pi_data from the progress dialog on: the dialog shown, the worker
\* stored, the fetch button disabled.
Started(w) ==
    [w EXCEPT !.progress_dialog = "open", !.worker = TRUE, !.fetch_btn = FALSE]

\* connect_to_server: the Connect button; it is enabled while PIconnect is
\* available and the window is not connected.
connect_to_server ==
    /\ Interactive
    /\ window.pi_available
    /\ ~window.connection_status
    /\ \E outcome \in {"connected", "missing_server", "failed"} :
         IF outcome = "connected"
         THEN /\ window' = [window EXCEPT !.connection_status = TRUE]
              /\ UNCHANGED qt
         ELSE /\ qt' = [qt EXCEPT !.boxes = @ + 1]
              /\ UNCHANGED window
    /\ UNCHANGED <<config, descriptions, units, pc, i, all_samples, lab_df, ev,
                   sample_time, result, rows, data_frames, calls, progress,
                   errors, emitted, session, exporter>>

\* fetch_pi_data: the Fetch button.  A failed check ends in a warning box;
\* in inferential mode the user confirms the summary or not; then a new
\* DataFetchWorker is built from the controls, connected and started.
fetch_pi_data ==
    /\ Interactive
    /\ window.fetch_btn
    /\ session.started < MaxFetches
    /\ \E ui \in UiConfigs, reply \in {"Yes", "No"} :
         IF ~window.pi_available \/ ~window.connection_status \/ Invalid(ui)
         THEN /\ qt' = [qt EXCEPT !.boxes = @ + 1]
              /\ UNCHANGED <<config, descriptions, units, pc, i, all_samples,
                             lab_df, ev, sample_time, result, rows, data_frames,
                             calls, progress, errors, emitted, window, session>>
         ELSE IF ui.mode = "inferential" /\ reply = "No"
         THEN UNCHANGED <<config, descriptions, units, pc, i, all_samples,
                          lab_df, ev, sample_time, result, rows, data_frames,
                          calls, progress, errors, emitted, window, qt, session>>
         ELSE /\ mode' = ui.mode
              /\ tags' = ui.tags
              /\ lab_tags' = ui.lab_tags
              /\ descriptions' = EmptyDict
              /\ units' = EmptyDict
              /\ pc' = "start"
              /\ i' = 1
              /\ all_samples' = FreshList(all_samples)
              /\ lab_df' = EmptyFrame
              /\ ev' = 1
              /\ sample_time' = NoTime
              /\ result' = EmptyDict
              /\ rows' = FreshList(rows)
              /\ data_frames' = FreshList(data_frames)
              /\ calls' = <<>>
              /\ progress' = <<>>
              /\ errors' = <<>>
              /\ emitted' = <<>>
              /\ window' = Started(window)
              /\ qt' = [InitQt EXCEPT !.boxes = qt.boxes]
              /\ session' = [session EXCEPT !.started = @ + 1,
                                            !.before = Stored(window)]
              /\ UNCHANGED <<pi, past_window, future_window>>
    /\ UNCHANGED exporter

\* on_fetch_error calling clear_data: an error discards what the window holds.
on_fetch_error_clear_data ==
    /\ qt.errors_seen < Len(errors)
    /\ qt' = [qt EXCEPT !.errors_seen = @ + 1, !.boxes = @ + 1]
    /\ window' = [window EXCEPT !.data_frame = EmptyFrame,
                                 !.descriptions = EmptyDict,
                                 !.units = EmptyDict]
    /\ UNCHANGED <<config, descriptions, units, pc, i, all_samples, lab_df, ev,
                   sample_time, result, rows, data_frames, calls, progress,
                   errors, emitted, session, exporter>>

\* on_fetch_error, the slot of error_occurred: a modal QMessageBox.critical.
\* Its nested event loop goes on delivering the worker's signals.
on_fetch_error ==
    /\ qt.errors_seen < Len(errors)
    /\ qt' = [qt EXCEPT !.errors_seen = @ + 1, !.boxes = @ + 1]
    /\ UNCHANGED <<config, descriptions, units, pc, i, all_samples, lab_df, ev,
                   sample_time, result, rows, data_frames, calls, progress,
                   errors, emitted, window, session, exporter>>

\* is_inferential = hasattr(self.worker, 'mode') and self.worker.mode ==
\* 'inferential': whatever is not seen as inferential is treated as process.
ModeRead(w) == IF w.worker /\ mode = "inferential" THEN "inferential" ELSE "process"

\* on_data_ready, the slot of data_ready: the result replaces what the window
\* holds.  The signals are queued in the order the worker emitted them, and
\* data_ready is the last one a run emits.
on_data_ready ==
    /\ qt.errors_seen = Len(errors)
    /\ qt.ready_seen < Len(emitted)
    /\ LET res == emitted[qt.ready_seen + 1]
       IN  window' = [window EXCEPT !.data_frame = res.dataframe,
                                    !.descriptions = res.descriptions,
                                    !.units = res.units]
    /\ qt' = [qt EXCEPT !.ready_seen = @ + 1,
                        !.shown_as = ModeRead(window)]
    /\ UNCHANGED <<config, descriptions, units, pc, i, all_samples, lab_df, ev,
                   sample_time, result, rows, data_frames, calls, progress,
                   errors, emitted, session, exporter>>

\* The fetch button left disabled.
FinishedButtonDisabled(w) ==
    [w EXCEPT !.progress_dialog = "closed", !.worker = FALSE]

\* on_fetch_finished: the progress dialog closed, the fetch button enabled
\* again, the worker dropped.
Finished(w) ==
    [w EXCEPT !.progress_dialog = "closed", !.fetch_btn = TRUE, !.worker = FALSE]

\* finished handled as soon as run() has returned, ahead of the signals the
\* run emitted before.
on_fetch_finished_unordered ==
    /\ pc = "done"
    /\ ~qt.finished_seen
    /\ window' = Finished(window)
    /\ qt' = [qt EXCEPT !.finished_seen = TRUE]
    /\ session' = [session EXCEPT
                     !.finished = @ + 1,
                     !.runs = Append(@, [ mode     |-> mode,
                                          tags     |-> tags,
                                          lab_tags |-> lab_tags,
                                          outcomes |-> [k \in 1 .. Len(calls) |->
                                                          calls[k].outcome],
                                          emitted  |-> emitted ])]
    /\ UNCHANGED <<config, descriptions, units, pc, i, all_samples, lab_df, ev,
                   sample_time, result, rows, data_frames, calls, progress,
                   errors, emitted, exporter>>

\* on_fetch_finished, the slot of QThread.finished (emitted when run()
\* returns).  The worker's signals are queued to the GUI thread in the order
\* of their emission, so the handler runs after those of the errors and of
\* the result.
on_fetch_finished ==
    /\ pc = "done"
    /\ ~qt.finished_seen
    /\ qt.errors_seen = Len(errors)
    /\ qt.ready_seen = Len(emitted)
    /\ window' = Finished(window)
    /\ qt' = [qt EXCEPT !.finished_seen = TRUE]
    /\ session' = [session EXCEPT
                     !.finished = @ + 1,
                     !.runs = Append(@, [ mode     |-> mode,
                                          tags     |-> tags,
                                          lab_tags |-> lab_tags,
                                          outcomes |-> [k \in 1 .. Len(calls) |->
                                                          calls[k].outcome],
                                          emitted  |-> emitted ])]
    /\ UNCHANGED <<config, descriptions, units, pc, i, all_samples, lab_df, ev,
                   sample_time, result, rows, data_frames, calls, progress,
                   errors, emitted, exporter>>

\* The user closes the topmost message box.
close_box ==
    /\ qt.boxes > 0
    /\ qt' = [qt EXCEPT !.boxes = @ - 1]
    /\ UNCHANGED <<config, descriptions, units, pc, i, all_samples, lab_df, ev,
                   sample_time, result, rows, data_frames, calls, progress,
                   errors, emitted, window, session, exporter>>

\* The user dismisses the progress dialog (Esc, or its close button): a
\* QDialog that overrides neither reject nor closeEvent.
close_progress_dialog ==
    /\ qt.boxes = 0
    /\ window.progress_dialog = "open"
    /\ window' = [window EXCEPT !.progress_dialog = "closed"]
    /\ UNCHANGED <<config, descriptions, units, pc, i, all_samples, lab_df, ev,
                   sample_time, result, rows, data_frames, calls, progress,
                   errors, emitted, qt, session, exporter>>

\* The tags the user picks in the tag search dialog: one that fetches name
\* too, and one no fetch of the model names.
SearchTags == {"P1", "S1"}

\* add_tags_immediately, the slot of the search dialog's tags_added: the
\* description and the unit the search found are written into the dicts the
\* window holds.  The dialog is opened by search_pi_tags, which wants the
\* window connected, and it is not modal; it emits a tag once.
add_tags_immediately ==
    /\ Interactive
    /\ window.pi_available
    /\ window.connection_status
    /\ \E tag \in SearchTags :
         /\ ~(tag \in DOMAIN window.descriptions
                /\ window.descriptions[tag] = <<"search description", tag>>)
         /\ window' = [window EXCEPT
                         !.descriptions = (tag :> <<"search description", tag>>) @@ @,
                         !.units = (tag :> <<"search units", tag>>) @@ @]
    /\ UNCHANGED <<config, descriptions, units, pc, i, all_samples, lab_df, ev,
                   sample_time, result, rows, data_frames, calls, progress,
                   errors, emitted, qt, session, exporter>>

\* ---------------------------------------------------------------- exporter
\* col.endswith('_Status'), over the column names of the model.
EndsWithStatus(col) == col \in {"TAG1_Status", "TAG2_Status"}

\* self.dataframe[[col for col in self.dataframe.columns if col != "Status"]]
WithoutStatus(df) ==
    LET keep == SelectSeq(df.columns, LAMBDA col : col # "Status")
    IN  [ columns |-> keep,
          rows    |-> [n \in 1 .. Len(df.rows) |->
                         [c \in Range(keep) |-> df.rows[n][c]]] ]

\* DataExporter.get_clean_dataframe.  (It also makes a timezone-aware
\* Timestamp naive; the timestamps of the model carry no timezone.)
get_clean_dataframe ==
    /\ ~exporter.called
    /\ exporter' = [exporter EXCEPT !.clean_df = WithoutStatus(exporter.dataframe),
                                    !.called = TRUE]
    /\ UNCHANGED <<config, descriptions, units, pc, i, all_samples, lab_df, ev,
                   sample_time, result, rows, data_frames, calls, progress,
                   errors, emitted, window, qt, session>>

\* Files.  A file is the sequence of its lines, a line the sequence of the
\* fields csv.writer wrote on it; the line writerow([]) leaves is blank.
HasColumn(df, c) == \E k \in 1 .. Len(df.columns) : df.columns[k] = c

\* dict.get(key, '')
Get(d, key) == IF key \in DOMAIN d THEN d[key] ELSE ""

\* str(value): the text the writer makes of a timestamp or of a number.
Text(v) == <<"str", v>>

\* pd.isna of a cell of a column: the status letters are never NaN.
IsNa(col, value) ==
    IF col = "Status" \/ EndsWithStatus(col) THEN FALSE ELSE IsNull(value)

\* [col for col in clean_df.columns if col != 'Timestamp']
OtherColumns(df) == SelectSeq(df.columns, LAMBDA col : col # "Timestamp")

\* export_csv, rows 1 to 4: tag names, descriptions, units, a blank row.
CsvHead(df, descs, us) ==
    LET cols == OtherColumns(df)
    IN  << <<"Timestamp">> \o cols,
           <<"Time">> \o [k \in 1 .. Len(cols) |-> Get(descs, cols[k])],
           <<"">> \o [k \in 1 .. Len(cols) |-> Get(us, cols[k])],
           <<>> >>

\* export_csv, the data rows: the timestamp, then the other columns.
CsvData(df) ==
    LET cols == OtherColumns(df)
    IN  [n \in 1 .. Len(df.rows) |->
           <<Text(df.rows[n]["Timestamp"])>>
             \o [k \in 1 .. Len(cols) |-> Text(df.rows[n][cols[k]])]]

\* DataExporter.export_csv.  row['Timestamp'] raises KeyError on the first
\* data row of a table without that column, after the head was written.
export_csv ==
    /\ ~exporter.csv.called
    /\ LET clean_df == WithoutStatus(exporter.dataframe)
           head     == CsvHead(clean_df, exporter.descriptions, exporter.units)
           raises   == clean_df.rows # <<>> /\ ~HasColumn(clean_df, "Timestamp")
       IN  exporter' =
             [exporter EXCEPT
                !.clean_df = clean_df,
                !.csv = [ called |-> TRUE,
                          raised |-> raises,
                          file   |-> [ exists |-> TRUE,
                                       lines  |-> IF raises THEN head
                                                  ELSE head \o CsvData(clean_df) ] ]]
    /\ UNCHANGED <<config, descriptions, units, pc, i, all_samples, lab_df, ev,
                   sample_time, result, rows, data_frames, calls, progress,
                   errors, emitted, window, qt, session>>

\* pd.read_csv(path): the first line is the header, every other line a
\* record; blank lines are skipped.
read_csv(lines) ==
    LET full == SelectSeq(lines, LAMBDA line : line # <<>>)
    IN  [columns |-> Head(full), records |-> Tail(full)]

\* parse_instrument_tag_from_opc_path, on the paths of the model: the
\* docstring's first example, and a blank path.
OpcPaths == {"E20FC0023/PID1/PV.CV", "  "}
parse_instrument_tag_from_opc_path(opc_path) ==
    IF opc_path = "E20FC0023/PID1/PV.CV" THEN "E20FC0023.PV" ELSE ""

\* export_txt: all_tag_columns, and tag_name_mapping[tag].
TagColumns(df) ==
    SelectSeq(df.columns, LAMBDA col : col # "Timestamp" /\ col # "Status")

TagName(tag, mapping) ==
    IF tag \in DOMAIN mapping
         /\ parse_instrument_tag_from_opc_path(mapping[tag]) # ""
    THEN parse_instrument_tag_from_opc_path(mapping[tag])
    ELSE tag

\* The second field of every pair forgotten.
InterleaveFirstOnly(a, b) == a

\* row.extend([a[j], b[j]]) for every tag.
Interleave(a, b) ==
    [j \in 1 .. 2 * Len(a) |-> IF j % 2 = 1 THEN a[(j + 1) \div 2] ELSE b[j \div 2]]

\* f"(timezone:{self.timezone})", and Timestamp.isoformat()
TimezoneLine(timezone) == <<"(timezone:", timezone, ")">>
Iso(t) == <<"iso", t>>

\* The status field written after every value of row n: row.get("Status",
\* 'G') of a frame whose missing Status column was set to 'G'.
StatusFields(df, n) ==
    [k \in 1 .. Len(TagColumns(df)) |->
       IF HasColumn(df, "Status") /\ df.rows[n]["Status"] # ""
       THEN df.rows[n]["Status"] ELSE "G"]

\* export_txt, from the timezone line to the last data row.
TxtLines(df, descs, us, timezone, mapping) ==
    LET available_tags == TagColumns(df)
        k == Len(available_tags)
        desc(tag) ==
            IF tag \in DOMAIN mapping /\ TagName(tag, mapping) # tag
            THEN IF tag \in DOMAIN descs
                 THEN <<descs[tag], " (Original: ", tag, ")">>
                 ELSE <<"Mapped from ", tag>>
            ELSE Get(descs, tag)
        value(n, tag) ==
            IF IsNa(tag, df.rows[n][tag]) THEN "" ELSE Text(df.rows[n][tag])
    IN  << <<TimezoneLine(timezone)>>,
           <<"Time">> \o Interleave([j \in 1 .. k |-> TagName(available_tags[j], mapping)],
                                     [j \in 1 .. k |-> "Status"]),
           <<"">> \o Interleave([j \in 1 .. k |-> desc(available_tags[j])],
                                 [j \in 1 .. k |-> ""]),
           <<"">> \o Interleave([j \in 1 .. k |-> Get(us, available_tags[j])],
                                 [j \in 1 .. k |-> ""]) >>
        \o [n \in 1 .. Len(df.rows) |->
              <<Iso(df.rows[n]["Timestamp"])>>
                \o Interleave([j \in 1 .. k |-> value(n, available_tags[j])],
                              StatusFields(df, n))]

\* DataExporter.export_txt.  df['Timestamp'] raises KeyError on a table
\* without that column, before the file is opened.
export_txt ==
    /\ ~exporter.txt.called
    /\ LET df     == exporter.dataframe
           raises == ~HasColumn(df, "Timestamp")
       IN  exporter' =
             [exporter EXCEPT
                !.txt = [ called |-> TRUE,
                          raised |-> raises,
                          file   |-> IF raises THEN NoFile
                                     ELSE [ exists |-> TRUE,
                                            lines  |-> TxtLines(df, exporter.descriptions,
                                                                exporter.units,
                                                                exporter.timezone,
                                                                exporter.instrument_mapping) ] ]]
    /\ UNCHANGED <<config, descriptions, units, pc, i, all_samples, lab_df, ev,
                   sample_time, result, rows, data_frames, calls, progress,
                   errors, emitted, window, qt, session>>

\* ---------------------------------------------------------------- specifications
\* A whole run of the worker, in any mode, against a historian whose tags
\* hold one of two series: samples at the even minutes of the grid, or
\* samples at the odd ones.
EvenSeries == SeriesOf([t \in { x \in Times : x % 2 = 0 } |-> ((t \div 2) % 2) + 1])
OddSeries == SeriesOf([t \in { x \in Times : x % 2 = 1 } |-> 3])
RunSeries == { EvenSeries, OddSeries }
RunTags == { <<>>, <<"P1">>, <<"P1", "P2">> }
RunLabTags == { <<>>, <<"L1">>, <<"L1", "L2">> }
RunWindows == { <<1, 0>>, <<1, 1>>, <<0, 0 - 1>> }

Init ==
    /\ pi \in [AllTags -> RunSeries]
    /\ mode \in {"process", "inferential", "other"}
    /\ tags \in RunTags
    /\ lab_tags \in RunLabTags
    /\ \E w \in RunWindows : past_window = w[1] /\ future_window = w[2]
    /\ pc = "start"
    /\ InitWorker
    /\ NoConsumer

Next ==
    \/ run
    \/ run_except
    \/ fetch_lab_samples_tag
    \/ fetch_lab_samples_merge
    \/ fetch_inferential_data_event
    \/ fetch_weighted_process_tag
    \/ fetch_weighted_process_return
    \/ fetch_inferential_data_row
    \/ fetch_inferential_data_final
    \/ fetch_interpolated_process_data_tag
    \/ fetch_interpolated_process_data_merge

Spec == Init /\ [][Next]_vars

\* The steps of a run other than a pass of fetch_weighted_process's loop.
NextButWeighted ==
    \/ run
    \/ run_except
    \/ fetch_lab_samples_tag
    \/ fetch_lab_samples_merge
    \/ fetch_inferential_data_event
    \/ fetch_weighted_process_return
    \/ fetch_inferential_data_row
    \/ fetch_inferential_data_final
    \/ fetch_interpolated_process_data_tag
    \/ fetch_interpolated_process_data_merge

\* A pass of fetch_weighted_process's loop, as far as the position of the
\* thread goes: whatever the read gives, the loop moves to the next tag.
WeightedPass == pc = "fwp_loop" /\ i <= Len(tags) /\ i' = i + 1 /\ pc' = pc

\* The same runs on a thread that is scheduled until run() returns: every
\* call to the historian returns or raises, and no step waits for another
\* thread.
SpecLive == Spec /\ WF_vars(NextButWeighted) /\ WF_<<pc, i>>(WeightedPass)

\* The series of the tags of a configuration: any series over V for a tag the
\* configuration names, nothing for the others.
Historians(used, V) ==
    { [t \in AllTags |-> IF t \in used THEN h[t] ELSE <<>>] :
        h \in [used -> SeriesOver(V)] }

\* One call of fetch_weighted_process(server, sample_time), for any sample
\* time on the grid, any window and any series of the first tag; the second
\* tag, when configured, holds the value 2 at every minute.
AggTags == { <<>>, <<"P1">>, <<"P1", "P2">> }

InitAgg ==
    /\ tags \in AggTags
    /\ \E h \in Historians(Range(tags) \ {"P2"}, Values) :
         pi = [h EXCEPT !["P2"] = IF "P2" \in Range(tags) THEN Constant(2) ELSE <<>>]
    /\ mode = "inferential"
    /\ lab_tags = <<>>
    /\ past_window \in 0 .. MaxWin
    /\ future_window \in (0 - MaxWin) .. MaxWin
    /\ pc = "fwp_loop"
    /\ InitWorker!1 /\ InitWorker!2 /\ InitWorker!3 /\ InitWorker!4
    /\ InitWorker!5 /\ InitWorker!6
    /\ sample_time \in Times
    /\ InitWorker!8 /\ InitWorker!9 /\ InitWorker!10 /\ InitWorker!11
    /\ InitWorker!12 /\ InitWorker!13 /\ InitWorker!14
    /\ NoConsumer

NextAgg ==
    \/ fetch_weighted_process_tag
    \/ fetch_weighted_process_return

SpecAgg == InitAgg /\ [][NextAgg]_vars

\* One call of fetch_lab_samples(server), for any series of the lab tags.
LabConfigs == { <<>>, <<"L1">>, <<"L2">>, <<"L1", "L2">>, <<"L2", "L1">> }

InitLab ==
    /\ lab_tags \in LabConfigs
    /\ pi \in Historians(Range(lab_tags), {1, 2})
    /\ mode = "inferential"
    /\ tags = <<>>
    /\ past_window = 0
    /\ future_window = 0
    /\ pc = "lab_loop"
    /\ InitWorker
    /\ NoConsumer

NextLab ==
    \/ fetch_lab_samples_tag
    \/ fetch_lab_samples_merge

SpecLab == InitLab /\ [][NextLab]_vars

\* One call of fetch_interpolated_process_data(server), for any series of
\* the tags.
GridConfigs == { <<>>, <<"P1">>, <<"P2">>, <<"P1", "P2">>, <<"P2", "P1">> }

InitGrid ==
    /\ tags \in GridConfigs
    /\ pi \in Historians(Range(tags), {1, 2})
    /\ mode = "process"
    /\ lab_tags = <<>>
    /\ past_window = 0
    /\ future_window = 0
    /\ pc = "grid_loop"
    /\ InitWorker
    /\ NoConsumer

NextGrid ==
    \/ fetch_interpolated_process_data_tag
    \/ fetch_interpolated_process_data_merge

SpecGrid == InitGrid /\ [][NextGrid]_vars

\* A whole run in either mode against a historian that returns the samples
\* of a tag in any order: every tag holds a sample at each minute of the
\* grid, the lab tags and the process tags are configured in either order.
FullSeries == SeriesOf([t \in Times |-> (t % 3) + 1])

Shuffles(s) ==
    { [k \in 1 .. Len(s) |-> s[p[k]]] :
        p \in { q \in [1 .. Len(s) -> 1 .. Len(s)] :
                  \A a, b \in 1 .. Len(s) : q[a] = q[b] => a = b } }

OrderConfigs ==
    { Ui("process", <<"P1", "P2">>, <<>>),
      Ui("process", <<"P2", "P1">>, <<>>),
      Ui("inferential", <<"P1">>, <<"L1", "L2">>),
      Ui("inferential", <<"P1">>, <<"L2", "L1">>) }

InitOrder ==
    /\ \E a, b \in Shuffles(FullSeries) :
         pi = [t \in AllTags |-> IF t \in {"L1", "P1"} THEN a ELSE b]
    /\ \E c \in OrderConfigs :
         mode = c.mode /\ tags = c.tags /\ lab_tags = c.lab_tags
    /\ past_window = 1
    /\ future_window = 0
    /\ pc = "start"
    /\ InitWorker
    /\ NoConsumer

SpecOrder == InitOrder /\ [][Next]_vars

\* The example of the window controls' help text: "Lab entered at 10 PM but
\* sample taken at 7 PM -> use -180 min future window", with the default past
\* window of 20 minutes.  Time is counted in minutes of the day; the first
\* tag holds any series with samples at some of 18:40, 19:00, 21:40 and
\* 22:00, the second, when configured, the value 2 at each of them.
Minute(h, m) == h * 60 + m
ExampleTimes == { Minute(18, 40), Minute(19, 0), Minute(21, 40), Minute(22, 0) }
ExampleSeries ==
    { SeriesOf(f) : f \in UNION { [S -> {1, 2}] : S \in SUBSET ExampleTimes } }

InitExample ==
    /\ tags \in AggTags
    /\ \E s \in ExampleSeries :
         pi = [t \in AllTags |->
                 IF t \notin Range(tags) THEN <<>>
                 ELSE IF t = "P2" THEN SeriesOf([x \in ExampleTimes |-> 2])
                 ELSE s]
    /\ mode = "inferential"
    /\ lab_tags = <<>>
    /\ past_window = 20
    /\ future_window = 0 - 180
    /\ pc = "fwp_loop"
    /\ InitWorker!1 /\ InitWorker!2 /\ InitWorker!3 /\ InitWorker!4
    /\ InitWorker!5 /\ InitWorker!6
    /\ sample_time = Minute(22, 0)
    /\ InitWorker!8 /\ InitWorker!9 /\ InitWorker!10 /\ InitWorker!11
    /\ InitWorker!12 /\ InitWorker!13 /\ InitWorker!14
    /\ NoConsumer

SpecExample == InitExample /\ [][NextAgg]_vars

\* A session of the window: the user connects, presses Fetch, closes message
\* boxes and the progress dialog, while the worker of the fetch runs on its
\* thread and its queued signals are delivered.  Every lab tag holds one
\* sample, at the start of the range; every process tag the even series.
GuiHistorian ==
    [t \in AllTags |-> IF t \in LabTags THEN SeriesOf(0 :> 1) ELSE EvenSeries]

InitGui ==
    /\ pi = GuiHistorian
    /\ mode = "process"
    /\ tags = <<>>
    /\ lab_tags = <<>>
    /\ past_window = 1
    /\ future_window = 0
    /\ pc = "idle"
    /\ InitWorker
    /\ window \in { InitWindow(TRUE), InitWindow(FALSE) }
    /\ qt = InitQt
    /\ session = InitSession
    /\ exporter = NoExporter

NextGui ==
    \/ connect_to_server
    \/ fetch_pi_data
    \/ close_box
    \/ close_progress_dialog
    \/ on_fetch_error
    \/ on_data_ready
    \/ on_fetch_finished
    \/ run
    \/ run_except
    \/ fetch_lab_samples_tag
    \/ fetch_lab_samples_merge
    \/ fetch_inferential_data_event
    \/ fetch_weighted_process_tag
    \/ fetch_weighted_process_return
    \/ fetch_inferential_data_row
    \/ fetch_inferential_data_final
    \/ fetch_interpolated_process_data_tag
    \/ fetch_interpolated_process_data_merge

SpecGui == InitGui /\ [][NextGui]_vars

\* The delivery of the worker's queued signals by the event loop of the GUI
\* thread, which also runs inside an open message box.
Deliver ==
    \/ on_fetch_error
    \/ on_data_ready
    \/ on_fetch_finished

\* The same session with the worker thread scheduled until run() returns
\* (every call to the historian returns or raises) and the event loop
\* running.  Nothing is asked of the user: they may never press a button or
\* close a dialog.
SpecGuiLive ==
    /\ SpecGui
    /\ WF_vars(NextButWeighted)
    /\ WF_<<pc, i>>(WeightedPass)
    /\ WF_vars(Deliver)

\* The same session with the tag search dialog at hand: the user also adds
\* tags from a search.
NextSearch ==
    \/ connect_to_server
    \/ fetch_pi_data
    \/ close_box
    \/ close_progress_dialog
    \/ add_tags_immediately
    \/ on_fetch_error
    \/ on_data_ready
    \/ on_fetch_finished
    \/ run
    \/ run_except
    \/ fetch_lab_samples_tag
    \/ fetch_lab_samples_merge
    \/ fetch_inferential_data_event
    \/ fetch_weighted_process_tag
    \/ fetch_weighted_process_return
    \/ fetch_inferential_data_row
    \/ fetch_inferential_data_final
    \/ fetch_interpolated_process_data_tag
    \/ fetch_interpolated_process_data_merge

SpecSearch == InitGui /\ [][NextSearch]_vars

\* One call of get_clean_dataframe, for any table whose columns are some of
\* Timestamp, two tags, the status column of a tag and Status, in any order,
\* with two rows.
ExportColumns == {"Timestamp", "TAG1", "TAG1_Status", "TAG2", "Status"}
ExportTables ==
    { [ columns |-> cols,
        rows    |-> [n \in 1 .. 2 |->
                       [c \in Range(cols) |->
                          IF c = "Timestamp" THEN n - 1
                          ELSE IF c = "Status" \/ EndsWithStatus(c) THEN "G"
                          ELSE Cell(n)]] ] :
        cols \in { q \in UNION { [1 .. n -> ExportColumns] :
                                   n \in 0 .. Cardinality(ExportColumns) } :
                     \A a, b \in 1 .. Len(q) : q[a] = q[b] => a = b } }

InitExport ==
    /\ pi = GuiHistorian
    /\ mode = "process"
    /\ tags = <<>>
    /\ lab_tags = <<>>
    /\ past_window = 0
    /\ future_window = 0
    /\ pc = "idle"
    /\ InitWorker
    /\ window = InitWindow(FALSE)
    /\ qt = InitQt
    /\ session = InitSession
    /\ \E df \in ExportTables :
         exporter = DataExporter(df, EmptyDict, EmptyDict, "Local", EmptyDict)

NextExport == get_clean_dataframe

SpecExport == InitExport /\ [][NextExport]_vars

\* export_csv and export_txt, once each and in either order, on one
\* exporter: for any table of up to MaxRows rows whose columns are some of
\* ExportColumns in any order (a table without columns has no rows), with
\* the metadata of the tests or none, and with an instrument path for TAG1
\* or none.  The last value of TAG2 is NaN, the status of the second row 'B'.
MaxRows == 2

FileColumnOrders ==
    { q \in UNION { [1 .. n -> ExportColumns] : n \in 0 .. Cardinality(ExportColumns) } :
        \A a, b \in 1 .. Len(q) : q[a] = q[b] => a = b }

FileTable(cols, m) ==
    [ columns |-> cols,
      rows    |-> [n \in 1 .. m |->
                     [c \in Range(cols) |->
                        IF c = "Timestamp" THEN n - 1
                        ELSE IF c = "Status" THEN (IF n = 2 THEN "B" ELSE "G")
                        ELSE IF EndsWithStatus(c) THEN "G"
                        ELSE IF c = "TAG2" /\ n = m THEN Null
                        ELSE Cell(n)]] ]

FileTables ==
    { FileTable(cm[1], cm[2]) :
        cm \in { x \in FileColumnOrders \X (0 .. MaxRows) : x[1] = <<>> => x[2] = 0 } }

TestDescriptions == ("TAG1" :> "Temperature Sensor") @@ ("TAG2" :> "Pressure Sensor")
TestUnits == ("TAG1" :> "degC") @@ ("TAG2" :> "kPa")

InitFiles ==
    /\ pi = GuiHistorian
    /\ mode = "process"
    /\ tags = <<>>
    /\ lab_tags = <<>>
    /\ past_window = 0
    /\ future_window = 0
    /\ pc = "idle"
    /\ InitWorker
    /\ window = InitWindow(FALSE)
    /\ qt = InitQt
    /\ session = InitSession
    /\ \E df \in FileTables, meta \in BOOLEAN,
          mapping \in {EmptyDict} \cup { "TAG1" :> path : path \in OpcPaths } :
         exporter = DataExporter(df,
                                 IF meta THEN TestDescriptions ELSE EmptyDict,
                                 IF meta THEN TestUnits ELSE EmptyDict,
                                 "Local", mapping)

NextFiles ==
    \/ export_csv
    \/ export_txt

SpecFiles == InitFiles /\ [][NextFiles]_vars

\* ---------------------------------------------------------------- properties
SeriesValues(raw) == { raw[k][2] : k \in 1 .. Len(raw) }
MinOf(S) == CHOOSE x \in S : \A y \in S : x <= y
MaxOf(S) == CHOOSE x \in S : \A y \in S : y <= x

\* The reads of the running fetch_weighted_process call that returned samples.
NonEmptyReads ==
    { k \in 1 .. Len(calls) :
        /\ calls[k].op = "weighted"
        /\ calls[k].time = sample_time
        /\ calls[k].outcome = "ok"
        /\ calls[k].raw # <<>> }

SpecWeight(t, a) == Rat(1, Abs(t - a) * 60 + 1)

\* r is the weighted average of ALL samples of raw under the weights above:
\* r * sum(w_i) = sum(value_i * w_i).
IsWeightedAverage(r, raw, a) ==
    LET w  == [n \in 1 .. Len(raw) |-> SpecWeight(raw[n][1], a)]
        vw == [n \in 1 .. Len(raw) |-> RatMul(Cell(raw[n][2]), w[n])]
    IN  /\ ~IsNull(r)
        /\ RatMul(r, RatSum(w)) = RatSum(vw)

\* The samples of raw closest to the anchor a.
Nearest(raw, a) ==
    { n \in 1 .. Len(raw) :
        \A m \in 1 .. Len(raw) : Abs(raw[n][1] - a) <= Abs(raw[m][1] - a) }

\* C2 as stated: the stored value is the weighted average over all returned
\* samples, and it is never the value of the nearest sample when another
\* returned sample has a different value.
C2_NeverNearestValue ==
    \A k \in NonEmptyReads :
      LET raw == calls[k].raw
          r   == result[calls[k].tag]
      IN  /\ IsWeightedAverage(r, raw, sample_time)
          /\ \A n \in Nearest(raw, sample_time) :
               (\E m \in 1 .. Len(raw) : raw[m][2] # raw[n][2]) => r # Cell(raw[n][2])

\* C2 amended: the stored value is the weighted average over all returned
\* samples (a sample at the anchor weighing 1), so when two returned samples
\* differ in value it is strictly between the smallest and the largest value:
\* no sample is picked alone.
C2_WeightedOverAll ==
    \A k \in NonEmptyReads :
      LET raw  == calls[k].raw
          r    == result[calls[k].tag]
          vals == SeriesValues(raw)
      IN  /\ IsWeightedAverage(r, raw, sample_time)
          /\ \A n \in 1 .. Len(raw) :
               raw[n][1] = sample_time => SpecWeight(raw[n][1], sample_time) = Cell(1)
          /\ Cardinality(vals) > 1 =>
               RatLess(Cell(MinOf(vals)), r) /\ RatLess(r, Cell(MaxOf(vals)))

\* A call has returned in which a tag had a sample at the anchor and another
\* sample of a different value elsewhere.
C2_Witness ==
    /\ pc = "fwp_ret"
    /\ \E k \in NonEmptyReads :
         \E a, b \in Range(calls[k].raw) :
           a[1] = sample_time /\ b[1] # sample_time /\ a[2] # b[2]

\* The error events fetch_weighted_process emitted, and its calls that raised.
WeightedErrors == SelectSeq(errors, LAMBDA e : e.kind = "weighted")
RaisedCalls == SelectSeq(calls, LAMBDA c : c.op = "weighted" /\ c.outcome # "ok")

\* C3: when the read for a tag returns no samples, fetch_weighted_process
\* stores None for the tag, raises nothing and emits no error event (the
\* error events are those of the calls that raised), and it goes on to the
\* remaining tags: it returns only with every tag processed.
C3_EmptyGivesNone ==
    /\ \A k \in 1 .. Len(calls) :
         (calls[k].op = "weighted" /\ calls[k].time = sample_time
            /\ calls[k].outcome = "ok" /\ calls[k].raw = <<>>)
         => /\ calls[k].tag \in DOMAIN result
            /\ IsNull(result[calls[k].tag])
    /\ Len(WeightedErrors) = Len(RaisedCalls)
    /\ pc = "fwp_ret" => DOMAIN result = Range(tags)

\* A call has returned in which the first of two tags had an empty read, no
\* error was emitted and the second tag got a value.
C3_Witness ==
    /\ pc = "fwp_ret"
    /\ Len(tags) = 2
    /\ calls[1].outcome = "ok" /\ calls[1].raw = <<>>
    /\ errors = <<>>
    /\ ~IsNull(result[tags[2]])

\* The lab reads that succeeded, and whether fetch_lab_samples has returned.
LabReads == { k \in 1 .. Len(calls) : calls[k].op = "lab" /\ calls[k].outcome = "ok" }
LabReturned == pc = "ev_loop" /\ i > Len(lab_tags)

\* C5: fetch_lab_samples never returns a row with a null lab value: every row
\* holds a number in every column of the returned frame, and a timestamp that
\* one of the joined series lacks is in no row.
C5_NoNullLabValue ==
    LabReturned =>
      /\ \A n \in 1 .. Len(lab_df.rows) :
           \A c \in Range(lab_df.columns) :
             /\ c \in DOMAIN lab_df.rows[n]
             /\ c # "Timestamp" => ~IsNull(lab_df.rows[n][c])
      /\ \A k \in LabReads :
           \A t \in Times \ SeriesTimes(calls[k].raw) : t \notin FrameTimes(lab_df)

\* Two lab series were joined, one lacking a timestamp of the other, and rows
\* were returned.
C5_Witness ==
    /\ LabReturned
    /\ lab_df.rows # <<>>
    /\ \E k, m \in LabReads :
         SeriesTimes(calls[k].raw) \ SeriesTimes(calls[m].raw) # {}

\* C6 as stated: a row for the timestamp t is returned only if EVERY
\* configured lab tag, also one whose fetch failed, had a value at t.
C6_EveryConfiguredTag ==
    LabReturned =>
      \A t \in FrameTimes(lab_df) :
        \A tag \in Range(lab_tags) :
          \E k \in LabReads : calls[k].tag = tag /\ t \in SeriesTimes(calls[k].raw)

\* C6 amended: a row for the timestamp t is returned only if every lab tag
\* that was fetched successfully had a value at t; a tag whose fetch failed
\* is left out of the join and of the rows, and does not hold back the others.
C6_EveryFetchedTag ==
    LabReturned =>
      /\ \A t \in FrameTimes(lab_df) :
           \A k \in LabReads : t \in SeriesTimes(calls[k].raw)
      /\ Range(lab_df.columns) = {"Timestamp"} \cup { calls[k].tag : k \in LabReads }

\* Rows were returned although the fetch of one configured lab tag failed.
C6_Witness ==
    /\ LabReturned
    /\ lab_df.rows # <<>>
    /\ \E e \in Range(errors) : e.kind = "lab"
    /\ Len(all_samples) >= 1

\* fetch_lab_samples has ended: it returned or it raised.
LabEnded == LabReturned \/ pc = "lab_raised"

\* C7: fetch_lab_samples raises its no-lab-data error if and only if no lab
\* tag was fetched successfully: it raises when every fetch failed or there
\* is no lab tag, and it returns when one fetch succeeded, whatever it held.
C7_RaisesIffNoneFetched ==
    /\ LabEnded => (pc = "lab_raised" <=> LabReads = {})
    /\ pc = "lab_raised" =>
         Len(SelectSeq(errors, LAMBDA e : e.kind = "lab")) = Len(lab_tags)

\* The call returned, without rows, after a fetch that succeeded with an
\* empty series.
C7_Witness ==
    /\ LabReturned
    /\ lab_df.rows = <<>>
    /\ \E k \in LabReads : calls[k].raw = <<>>

\* The grid reads that succeeded: those whose series went into the merge.
GridReads == { k \in 1 .. Len(calls) : calls[k].op = "grid" /\ calls[k].outcome = "ok" }

\* The value of the series raw at the timestamp t, null when it has none.
ValueAt(raw, t) ==
    IF t \in SeriesTimes(raw)
    THEN Cell(raw[CHOOSE n \in 1 .. Len(raw) : raw[n][1] = t][2])
    ELSE Null

\* C8: the table emitted in process-grid mode is the outer join of the
\* successfully fetched series on Timestamp: exactly one row per timestamp of
\* the union of their grids, and in it the cell of each tag holds the tag's
\* value at that timestamp, or null when the tag has no sample there.
C8_OuterJoin ==
    \A e \in 1 .. Len(emitted) :
      LET df == emitted[e].dataframe
      IN  /\ FrameTimes(df) = UNION { SeriesTimes(calls[k].raw) : k \in GridReads }
          /\ Len(df.rows) = Cardinality(FrameTimes(df))
          /\ \A n \in 1 .. Len(df.rows) :
               \A k \in GridReads :
                 /\ calls[k].tag \in DOMAIN df.rows[n]
                 /\ df.rows[n][calls[k].tag] = ValueAt(calls[k].raw, df.rows[n]["Timestamp"])

\* A table was emitted from two tags, one with three points and one with two
\* of them: three rows, one null.
C8_Witness ==
    /\ Len(emitted) = 1
    /\ \E k, m \in GridReads :
         /\ Len(calls[k].raw) = 3
         /\ Len(calls[m].raw) = 2
         /\ SeriesTimes(calls[m].raw) \subseteq SeriesTimes(calls[k].raw)
         /\ Len(emitted[1].dataframe.rows) = 3
         /\ Cardinality({ n \in 1 .. 3 :
                            IsNull(emitted[1].dataframe.rows[n][calls[m].tag]) }) = 1

\* The calls of fetch_weighted_process for the lab event at time t and the
\* process tag tag.
WeightedCallsAt(t, tag) ==
    { k \in 1 .. Len(calls) :
        calls[k].op = "weighted" /\ calls[k].time = t /\ calls[k].tag = tag }

\* C4: a failed fetch for a process tag at a lab event is caught: it emits
\* exactly one error event, the tag's value in the event's row is None, and
\* the run goes on: an emitted table has a row for every lab event, and for
\* each of them every process tag was fetched exactly once.
C4_FailureIsolated ==
    /\ WeightedErrors =
         [n \in 1 .. Len(RaisedCalls) |->
            Error("weighted", RaisedCalls[n].tag, RaisedCalls[n].time)]
    /\ \A e \in 1 .. Len(emitted) :
         mode = "inferential" =>
           LET df == emitted[e].dataframe
           IN  /\ Len(df.rows) = Len(lab_df.rows)
               /\ \A n \in 1 .. Len(df.rows) :
                    \A tag \in Range(tags) :
                      LET cs == WeightedCallsAt(df.rows[n]["Timestamp"], tag)
                      IN  /\ Cardinality(cs) = 1
                          /\ tag \in DOMAIN df.rows[n]
                          /\ \A k \in cs :
                               calls[k].outcome # "ok" => IsNull(df.rows[n][tag])
    /\ (pc = "done" /\ mode = "inferential" /\ LabReads # {}) => Len(emitted) = 1

\* A table was emitted after the fetch of the first tag failed at the first
\* of two lab events: the second tag and the second event have values.
C4_Witness ==
    /\ Len(emitted) = 1
    /\ mode = "inferential"
    /\ Len(tags) = 2
    /\ Len(emitted[1].dataframe.rows) = 2
    /\ \E k \in WeightedCallsAt(emitted[1].dataframe.rows[1]["Timestamp"], tags[1]) :
         calls[k].outcome # "ok"
    /\ ~IsNull(emitted[1].dataframe.rows[1][tags[2]])
    /\ ~IsNull(emitted[1].dataframe.rows[2][tags[1]])

\* The timestamps at which every successfully fetched lab series has a value:
\* the qualifying lab sample events.
QualifyingTimes ==
    { t \in Times : \A k \in LabReads : t \in SeriesTimes(calls[k].raw) }

\* C9: the table emitted in inferential mode has exactly one row per
\* qualifying lab sample event, whatever aggregates are null or failed.
C9_OneRowPerEvent ==
    \A e \in 1 .. Len(emitted) :
      mode = "inferential" =>
        LET df == emitted[e].dataframe
        IN  /\ Len(df.rows) = Cardinality(QualifyingTimes)
            /\ FrameTimes(df) = QualifyingTimes

\* A table of two rows was emitted with a null aggregate in one of them.
C9_Witness ==
    /\ Len(emitted) = 1
    /\ mode = "inferential"
    /\ Len(emitted[1].dataframe.rows) = 2
    /\ \E tag \in Range(tags) : IsNull(emitted[1].dataframe.rows[1][tag])

StatusColumns(df) == { k \in 1 .. Len(df.columns) : df.columns[k] = "Status" }

\* C11: every emitted table, in process-grid mode and in inferential mode,
\* has exactly one Status column, added after the merge (it is the last
\* column, and no per-tag frame and no row under construction has one), and
\* it holds 'G' in every row, whatever the number of tags and whichever
\* fetches failed.
C11_OneStatusColumn ==
    /\ \A e \in 1 .. Len(emitted) :
         LET df == emitted[e].dataframe
         IN  /\ StatusColumns(df) = { Len(df.columns) }
             /\ \A n \in 1 .. Len(df.rows) :
                  "Status" \in DOMAIN df.rows[n] /\ df.rows[n]["Status"] = "G"
    /\ \A k \in 1 .. Len(data_frames) : StatusColumns(data_frames[k]) = {}
    /\ \A k \in 1 .. Len(all_samples) : StatusColumns(all_samples[k]) = {}
    /\ \A k \in 1 .. Len(rows) : "Status" \notin DOMAIN rows[k]

\* A table of two tags and more than one row was emitted after a fetch that
\* failed.
C11_Witness ==
    /\ Len(emitted) = 1
    /\ errors # <<>>
    /\ Len(emitted[1].dataframe.columns) >= 4
    /\ Len(emitted[1].dataframe.rows) >= 2

\* The error events of fetch_interpolated_process_data: those of the tags,
\* and the one of the fetch as a whole; and its calls that failed.
GridErrors == SelectSeq(errors, LAMBDA e : e.kind = "grid")
FatalErrors == SelectSeq(errors, LAMBDA e : e.kind = "no_process_data")
GridFailures == SelectSeq(calls, LAMBDA c : c.op = "grid" /\ c.outcome # "ok")

\* C12: in process-grid mode a failed fetch of a tag emits one error event
\* for that tag, leaves only that tag out of the table, and the remaining
\* tags are fetched all the same; the fetch as a whole fails, with the one
\* no-data error and no table, if and only if no tag was fetched
\* successfully, and otherwise it emits exactly one table.
C12_FailsIffNoneFetched ==
    /\ GridErrors =
         [n \in 1 .. Len(GridFailures) |-> Error("grid", GridFailures[n].tag, NoTime)]
    /\ (pc = "done" /\ mode = "process") =>
         /\ [k \in 1 .. Len(calls) |-> calls[k].tag] = tags
         /\ (GridReads = {}) <=> (emitted = <<>> /\ Len(FatalErrors) = 1)
         /\ GridReads # {} =>
              /\ Len(emitted) = 1
              /\ FatalErrors = <<>>
              /\ Range(emitted[1].dataframe.columns) =
                   {"Timestamp", "Status"} \cup { calls[k].tag : k \in GridReads }

\* The fetch of the first of two tags failed, the second was fetched and a
\* table was emitted.
C12_Witness ==
    /\ pc = "done"
    /\ Len(tags) = 2
    /\ Len(calls) = 2
    /\ calls[1].outcome # "ok"
    /\ calls[2].outcome = "ok"
    /\ Len(emitted) = 1
    /\ Len(GridErrors) = 1

\* C13: in an inferential run, once a lab series has been fetched the run
\* goes on to end having emitted exactly one table, however many fetches of
\* process tags fail; no run emits more than one table, and a run that ended
\* without a table fetched no lab series at all.
C13_LabSeriesGivesTable ==
    /\ [](mode = "inferential" => Len(emitted) <= 1)
    /\ []((mode = "inferential" /\ pc = "done" /\ emitted = <<>>) => LabReads = {})
    /\ (mode = "inferential" /\ LabReads # {}) ~> (pc = "done" /\ Len(emitted) = 1)

\* An inferential run ended with a table although the fetch of one lab tag
\* and every fetch of a process tag, at two lab events, failed.
C13_Witness ==
    /\ pc = "done"
    /\ mode = "inferential"
    /\ Len(emitted) = 1
    /\ \E e \in Range(errors) : e.kind = "lab"
    /\ Len(RaisedCalls) >= 2
    /\ \A k \in 1 .. Len(calls) : calls[k].op = "weighted" => calls[k].outcome # "ok"

NonDecreasing(s) == \A k \in 1 .. Len(s) - 1 : s[k] <= s[k + 1]

\* C15: in every run the progress values emitted so far are non-decreasing
\* and lie in 0..100, and a run that completed normally (it emitted its
\* table) emitted 100 last: in process-grid mode 0, then floor((k-1)*90/total)
\* before the k-th tag, then 95 and 100; in inferential mode 0, then
\* floor((k-1)*95/total) after the k-th lab event, then 100.
C15_ProgressContract ==
    /\ NonDecreasing(progress)
    /\ \A k \in 1 .. Len(progress) : progress[k] \in 0 .. 100
    /\ Len(emitted) = 1 => progress[Len(progress)] = 100
    /\ (Len(emitted) = 1 /\ mode = "process") =>
         progress = <<0>> \o [k \in 1 .. Len(tags) |-> ((k - 1) * 90) \div Len(tags)]
                          \o <<95, 100>>
    /\ (Len(emitted) = 1 /\ mode = "inferential") =>
         progress = <<0>> \o [k \in 1 .. Len(lab_df.rows) |->
                                ((k - 1) * 95) \div Len(lab_df.rows)]
                          \o <<100>>

\* Runs completed in inferential mode after two lab events: 0, 0, 47, 100.
C15_Witness ==
    /\ pc = "done"
    /\ mode = "inferential"
    /\ Len(emitted) = 1
    /\ progress = <<0, 0, 47, 100>>

\* C16: every row of an inferential table carries the recorded time of its
\* lab event as Timestamp, and an Actual_Sample_Time equal to the recorded
\* time plus future_window minutes.
C16_ActualSampleTime ==
    \A e \in 1 .. Len(emitted) :
      mode = "inferential" =>
        LET df == emitted[e].dataframe
        IN  \A n \in 1 .. Len(df.rows) :
              /\ df.rows[n]["Timestamp"] = lab_df.rows[n]["Timestamp"]
              /\ "Actual_Sample_Time" \in DOMAIN df.rows[n]
              /\ df.rows[n]["Actual_Sample_Time"] = df.rows[n]["Timestamp"] + future_window

\* C17: with future_window = -180, past_window = 20 and the recorded time
\* 22:00, every read of fetch_weighted_process asks the historian for the
\* window from 18:40 to 19:00, the actual sample time.
C17_WindowOfTheExample ==
    \A k \in 1 .. Len(calls) :
      (calls[k].op = "weighted" /\ calls[k].time = Minute(22, 0)) =>
        /\ calls[k].end = Minute(19, 0)
        /\ calls[k].start = Minute(18, 40)

\* The errors of a fetch as a whole, as opposed to the reports about one tag.
OperationErrors ==
    SelectSeq(errors, LAMBDA e : e.kind \in {"connection", "no_process_data", "unknown_mode"})
FailedCalls == SelectSeq(calls, LAMBDA c : c.outcome # "ok")

\* The worker has returned without having fetched a series: no lab series in
\* inferential mode, no process tag in process-grid mode.
TotalAbsence ==
    /\ pc = "done"
    /\ IF mode = "inferential" THEN LabReads = {} ELSE GridReads = {}

\* C14: when a fetch ends having fetched no series at all it emits no table
\* and exactly one error for the fetch as a whole, next to one report per
\* failed tag, all of them delivered to the window by the time the finished
\* handler has run; and as long as a fetch has emitted no table the window
\* holds the table, descriptions and units it held when the fetch started.
C14_AbsenceLeavesStored ==
    /\ TotalAbsence =>
         /\ emitted = <<>>
         /\ Len(OperationErrors) = 1
         /\ Len(errors) = Len(FailedCalls) + 1
         /\ session.finished = session.started => qt.errors_seen = Len(errors)
    /\ (session.started > 0 /\ emitted = <<>>) => Stored(window) = session.before

\* A second fetch ended without any series, after reports about its tags;
\* everything was delivered and dismissed, and the window still holds the
\* rows of the first fetch.
C14_Witness ==
    /\ session.finished = 2
    /\ TotalAbsence
    /\ Len(errors) >= 2
    /\ qt.boxes = 0
    /\ window.data_frame.rows # <<>>
    /\ window.data_frame = session.runs[1].emitted[1].dataframe

\* The workers started whose finished handler has not run yet.
InFlight == session.started - session.finished

\* C18: at most one fetch is in flight: a worker that is started and whose
\* finished handler has not run excludes a second one, whatever the user
\* clicks or dismisses and however the worker's signals are delivered; a
\* worker thread that runs is the one in flight.
C18_OneFetchInFlight ==
    /\ InFlight \in {0, 1}
    /\ pc \notin {"idle", "done"} => InFlight = 1

\* The second worker of the session is running, one of its errors was shown
\* and dismissed and the progress dialog was dismissed too: the user can
\* reach the window.
C18_Witness ==
    /\ session.started = 2
    /\ InFlight = 1
    /\ pc \notin {"idle", "done"}
    /\ qt.errors_seen >= 1
    /\ Interactive

\* C19: two fetches of a session with the same mode, tags and lab tags (the
\* historian, the range and the windows never change) to which the historian
\* answered the same way emitted the same result: the same columns in the
\* same order, the same rows, the same descriptions and units.
C19_RerunSameTable ==
    \A a, b \in 1 .. Len(session.runs) :
      LET x == session.runs[a]
          y == session.runs[b]
      IN  (/\ x.mode = y.mode
           /\ x.tags = y.tags
           /\ x.lab_tags = y.lab_tags
           /\ x.outcomes = y.outcomes) => x.emitted = y.emitted

\* The same fetch of two tags ran twice, the second tag failing both times,
\* and emitted a table with rows both times.
C19_Witness ==
    /\ Len(session.runs) = 2
    /\ session.runs[1].mode = session.runs[2].mode
    /\ session.runs[1].tags = session.runs[2].tags
    /\ session.runs[1].lab_tags = session.runs[2].lab_tags
    /\ session.runs[1].outcomes = session.runs[2].outcomes
    /\ Len(session.runs[1].tags) = 2
    /\ \E k \in 1 .. Len(session.runs[1].outcomes) : session.runs[1].outcomes[k] # "ok"
    /\ Len(session.runs[2].emitted) = 1
    /\ session.runs[2].emitted[1].dataframe.rows # <<>>

\* C20: the table get_clean_dataframe returns has no column named Status and
\* no column whose name ends with _Status, and it keeps Timestamp and every
\* other column of the input.
C20_NoStatusColumns ==
    exporter.called =>
      /\ \A c \in Range(exporter.clean_df.columns) : c # "Status" /\ ~EndsWithStatus(c)
      /\ \A c \in Range(exporter.dataframe.columns) :
           (c # "Status" /\ ~EndsWithStatus(c)) => c \in Range(exporter.clean_df.columns)

\* The data tags of a table: its columns other than Timestamp and the
\* status columns.
DataTags(df) ==
    { c \in Range(df.columns) : c # "Timestamp" /\ c # "Status" /\ ~EndsWithStatus(c) }

\* C21: the file export_csv writes for a table with n rows, read back as CSV
\* with its first line as the header, has exactly n records, and its columns
\* are Timestamp and the data tags of the table, with no status column.
C21_CsvReadBack ==
    (exporter.csv.called /\ ~exporter.csv.raised) =>
      LET back == read_csv(exporter.csv.file.lines)
      IN  /\ Len(back.records) = Len(exporter.dataframe.rows)
          /\ Range(back.columns) = {"Timestamp"} \cup DataTags(exporter.dataframe)

\* The shape of the file export_txt left for a table with a Timestamp column,
\* with name(tag) the name the header shows for a tag column: line 1 the
\* timezone, line 2 Time and then name and Status for every tag column in
\* table order, line 3 the descriptions, line 4 the units, then one line of
\* 1 + 2k fields for every row, with the status 'G' when the table has no
\* Status column.
DmcStructure(name(_)) ==
    LET df      == exporter.dataframe
        lines   == exporter.txt.file.lines
        tagcols == TagColumns(df)
        k       == Len(tagcols)
        n       == Len(df.rows)
    IN  /\ ~exporter.txt.raised
        /\ exporter.txt.file.exists
        /\ Len(lines) = 4 + n
        /\ lines[1] = <<TimezoneLine(exporter.timezone)>>
        /\ Len(lines[2]) = 1 + 2 * k
        /\ lines[2][1] = "Time"
        /\ \A j \in 1 .. k : /\ lines[2][2 * j] = name(tagcols[j])
                             /\ lines[2][2 * j + 1] = "Status"
        /\ Len(lines[3]) = 1 + 2 * k
        /\ \A j \in 1 .. k :
             tagcols[j] \notin DOMAIN exporter.instrument_mapping
               => lines[3][2 * j] = Get(exporter.descriptions, tagcols[j])
        /\ Len(lines[4]) = 1 + 2 * k
        /\ \A j \in 1 .. k : lines[4][2 * j] = Get(exporter.units, tagcols[j])
        /\ \A r \in 1 .. n :
             /\ Len(lines[4 + r]) = 1 + 2 * k
             /\ lines[4 + r][1] = Iso(df.rows[r]["Timestamp"])
             /\ ~HasColumn(df, "Status")
                  => \A j \in 1 .. k : lines[4 + r][2 * j + 1] = "G"

TxtExported == exporter.txt.called /\ HasColumn(exporter.dataframe, "Timestamp")

C23_EmptyTableExports ==
    exporter.dataframe = EmptyFrame =>
      /\ exporter.csv.called => ~exporter.csv.raised /\ exporter.csv.file.exists
      /\ exporter.txt.called => ~exporter.txt.raised /\ exporter.txt.file.exists

\* C24: every read fetch_weighted_process makes asks the historian for a
\* well-formed window around the anchor (the time of the lab event): it
\* starts at anchor - past_window, it ends at anchor + max(future_window, 0),
\* never below the anchor, and its start is not after its end.
C24_WellFormedWindow ==
    \A k \in 1 .. Len(calls) :
      calls[k].op = "weighted" =>
        /\ calls[k].start = calls[k].time - past_window
        /\ calls[k].end = calls[k].time + (IF future_window > 0 THEN future_window ELSE 0)
        /\ calls[k].end >= calls[k].time
        /\ calls[k].start <= calls[k].end

\* The rows are in ascending Timestamp order.
Ascending(rs) ==
    \A a, b \in 1 .. Len(rs) : a < b => rs[a]["Timestamp"] <= rs[b]["Timestamp"]

\* C25: the lab events fetch_lab_samples returns and the rows of every
\* emitted table, in both modes, are in ascending Timestamp order, whatever
\* order the historian returns the samples in and whatever order the tags
\* are configured in.
C25_AscendingRows ==
    /\ Ascending(lab_df.rows)
    /\ \A k \in 1 .. Len(emitted) : Ascending(emitted[k].dataframe.rows)

\* An inferential table of all the lab events, built from lab series that
\* both came back with their first sample later than their second.
C25_Witness ==
    /\ mode = "inferential"
    /\ lab_tags = <<"L2", "L1">>
    /\ Len(emitted) = 1
    /\ Len(emitted[1].dataframe.rows) = Cardinality(Times)
    /\ Len(lab_df.rows) = Cardinality(Times)
    /\ \A k \in 1 .. Len(calls) :
         calls[k].op = "lab" => /\ calls[k].outcome = "ok"
                                /\ calls[k].raw[1][1] > calls[k].raw[2][1]

\* The result the window stored last: the one on_data_ready took from the
\* worker of this fetch, or else from the last fetch before that emitted one;
\* no element when the session has stored none yet.
LastStored ==
    LET past == SelectSeq(session.runs, LAMBDA r : r.emitted # <<>>)
    IN  IF qt.ready_seen > 0 THEN <<emitted[qt.ready_seen]>>
        ELSE IF past # <<>> THEN <<past[Len(past)].emitted[1]>>
        ELSE <<>>

\* C26: once the window has stored a result, the table, the descriptions and
\* the units it holds are those of the result it stored last: no operation
\* (a tag added from a search, a dismissed dialog, a later fetch that fails)
\* changes them, only the next result replaces them as a whole.
C26_StoredNeverMutated ==
    LastStored # <<>> => Stored(window) = LastStored[1]

\* C27: a run has one kind of outcome: it emits data_ready at most once, it
\* never emits both a table and an error about the fetch as a whole, and when
\* it has returned without a table it has emitted at least one error.
C27_OneKindOfOutcome ==
    /\ Len(emitted) <= 1
    /\ ~(emitted # <<>> /\ OperationErrors # <<>>)
    /\ (pc = "done" /\ emitted = <<>>) => errors # <<>>

\* A run that returned with a table and, next to it, the report about a tag
\* that failed.
C27_Witness ==
    /\ pc = "done"
    /\ Len(emitted) = 1
    /\ emitted[1].dataframe.rows # <<>>
    /\ errors # <<>>
    /\ OperationErrors = <<>>

\* C28: every fetch that was started finishes: its finished handler runs,
\* and then the fetch button is enabled again and the window holds no worker,
\* whether the run emitted a table, reports about tags or an error about the
\* fetch as a whole, and whatever the user does or leaves undone.
C28_EveryFetchFinishes ==
    (session.started > session.finished)
      ~> (/\ session.started = session.finished
          /\ window.fetch_btn
          /\ ~window.worker)

\* A fetch that ended in an error about the fetch as a whole and without a
\* table was followed by a second one, which emitted a table and has finished
\* too.
C28_Witness ==
    /\ session.finished = 2
    /\ session.runs[1].emitted = <<>>
    /\ session.runs[2].emitted # <<>>
    /\ OperationErrors = <<>>
    /\ window.fetch_btn
    /\ ~window.worker

\* The tag columns of an emitted table.
TagColumnSet(df) == Range(df.columns) \ {"Timestamp", "Status"}

\* C29: in every result of the process-grid mode the keys of the descriptions
\* and the keys of the units are the tag columns of the table, also when the
\* read of a tag's description or unit failed after its series was fetched.
C29_MetadataKeysAreColumns ==
    \A k \in 1 .. Len(emitted) :
      /\ DOMAIN emitted[k].descriptions = TagColumnSet(emitted[k].dataframe)
      /\ DOMAIN emitted[k].units = TagColumnSet(emitted[k].dataframe)

====
